---- MODULE Spec2Model ----
(***************************************************************************)
(* IndexList: a doubly linked list backed by a vector of slots, addressed  *)
(* by generational indices (src/src/lib.rs).                               *)
(*                                                                         *)
(* Option<T> is modelled as a set with at most one element: None is {},     *)
(* Some(x) is {x}.  Vec positions are the 0-based positions of the source;  *)
(* slot i of the vector is element i+1 of the TLA+ sequence.                *)
(***************************************************************************)
EXTENDS Integers, Sequences, FiniteSets, TLC

\* ---------------------------------------------------------------- bounds
MaxSlots == 3

MaxGen == 2

Values == {1, 2}

\* ---------------------------------------------------------------- Option
None == {}

Some(x) == {x}

Unwrap(o) == CHOOSE x \in o : TRUE

\* ---------------------------------------------------------------- data
Free(nf) == [tag |-> "Free", next_free |-> nf]

Occupied(it, g, n, p) ==
    [tag |-> "Occupied", item |-> it, generation |-> g, next |-> n, prev |-> p]

Index(i, g) == [index |-> i, generation |-> g]

IndexList(c, g, nf, h, t, n) ==
    [contents |-> c, generation |-> g, next_free |-> nf,
     head |-> h, tail |-> t, count |-> n]

default == IndexList(<<>>, 0, None, None, None, 0)

\* Vec::get: is position i inside the vector
InRange(c, i) == i \in 0 .. (Len(c) - 1)

\* contents[i]
Slot(c, i) == c[i + 1]

\* (variant: the write lands one position too low)
SetSlot_off_by_one(c, i, e) == [c EXCEPT ![i] = e]

\* contents[i] = e
SetSlot(c, i, e) == [c EXCEPT ![i + 1] = e]

IsOccupied(c, i) == InRange(c, i) /\ Slot(c, i).tag = "Occupied"

IsFree(c, i) == InRange(c, i) /\ Slot(c, i).tag = "Free"

\* the outcome of one call: the list afterwards, the value returned, and
\* whether the call ended in a panic (then nothing is returned)
Ret(l, r) == [list |-> l, res |-> r, panic |-> FALSE]

Panic(l) == [list |-> l, res |-> None, panic |-> TRUE]

\* a handle is valid iff its slot is Occupied with the handle's generation
IsValid(l, h) ==
    /\ IsOccupied(l.contents, h.index)
    /\ Slot(l.contents, h.index).generation = h.generation

\* ---------------------------------------------------------------- IndexList
\* (variant: every slot is stamped with generation 0)
stamp_zero(l) == 0

\* (variant: the stamp is one behind the counter)
stamp_previous(l) == IF l.generation > 0 THEN l.generation - 1 ELSE 0

\* (variant: the stamp is one ahead of the counter)
stamp_next(l) == l.generation + 1

\* the generation written into a newly occupied slot and into its handle
stamp(l) == l.generation

\* (variant: the generation of the handle is not compared)
lookup_any_generation(l, index) ==
    /\ InRange(l.contents, index.index)
    /\ Slot(l.contents, index.index).tag = "Occupied"

\* the guard of remove, insert_before and insert_after: the slot of the handle
\* exists, is Occupied, and carries the handle's generation
lookup(l, index) ==
    /\ InRange(l.contents, index.index)
    /\ Slot(l.contents, index.index).tag = "Occupied"
    /\ index.generation = Slot(l.contents, index.index).generation

\* (variant: remove leaves the counter alone)
bump_skipped(g) == g

\* (variant: the counter is bumped twice by one call)
bump_twice(g) == g + 2

\* self.generation += 1 of remove
bump(g) == g + 1

\* (variant: the predecessor keeps its link to the removed slot)
relink_prev_skipped(c, oc_prev, oc_next) == c

\* (variant: both links of the predecessor are rewritten)
relink_prev_both(c, oc_prev, oc_next) ==
    IF oc_prev # None /\ IsOccupied(c, Unwrap(oc_prev))
    THEN SetSlot(c, Unwrap(oc_prev),
                 [Slot(c, Unwrap(oc_prev)) EXCEPT !.next = oc_next, !.prev = oc_next])
    ELSE c

\* remove: the predecessor's next link is rewritten to the successor
relink_prev(c, oc_prev, oc_next) ==
    IF oc_prev # None /\ IsOccupied(c, Unwrap(oc_prev))
    THEN SetSlot(c, Unwrap(oc_prev), [Slot(c, Unwrap(oc_prev)) EXCEPT !.next = oc_next])
    ELSE c

\* (variant: the successor keeps its link to the removed slot)
relink_next_skipped(c, oc_next, oc_prev) == c

\* remove: the successor's prev link is rewritten to the predecessor
relink_next(c, oc_next, oc_prev) ==
    IF oc_next # None /\ IsOccupied(c, Unwrap(oc_next))
    THEN SetSlot(c, Unwrap(oc_next), [Slot(c, Unwrap(oc_next)) EXCEPT !.prev = oc_prev])
    ELSE c

\* (variant: head stays on the removed slot)
remove_head_kept(l, index, oc) == l.head

\* remove: head and tail move off the removed slot oc
remove_head(l, index, oc) == IF l.head = Some(index.index) THEN oc.next ELSE l.head

\* (variant: tail stays on the removed slot)
remove_tail_kept(l, index, oc) == l.tail

remove_tail(l, index, oc) == IF l.tail = Some(index.index) THEN oc.prev ELSE l.tail

\* (variant: the slot is left Occupied)
release_skipped(c, index, nf) == c

\* (variant: the freed slot does not continue the free chain)
release_unchained(c, index, nf) == SetSlot(c, index.index, Free(None))

\* remove: the slot of the handle is swapped for a Free entry that continues
\* the free chain
release(c, index, nf) == SetSlot(c, index.index, Free(nf))

\* (variant: the free chain keeps its former head)
remove_next_free_kept(l, index) == l.next_free

\* remove: self.next_free = Some(index.index)
remove_next_free(l, index) == Some(index.index)

\* (variant: the free chain is not advanced past the slot taken)
pop_free_skipped(l, index) == l.next_free

\* the insertions' self.next_free = next_free: the link stored in the slot taken
pop_free(l, index) == Slot(l.contents, index).next_free

\* (variant: the counter of elements is left alone)
inc_skipped(n) == n

\* self.count += 1 of the insertions
inc(n) == n + 1

\* (variant: a slot is pushed even when a Free slot is available)
alloc_always_push(l, it, n, p) ==
    [panic |-> FALSE, index |-> Len(l.contents),
     list |-> [l EXCEPT
         !.contents = Append(l.contents, Occupied(it, stamp(l), n, p)),
         !.count = inc(l.count),
         !.next_free = None]]

\* the slot a new element goes to: the head of the free chain (which must be
\* Free), else a slot pushed at the end of the vector.  Shared first half of
\* push_back, push_front, insert_before and insert_after.
alloc(l, it, n, p) ==
    IF l.next_free # None
    THEN LET index == Unwrap(l.next_free) IN
         IF ~IsFree(l.contents, index)
         THEN [panic |-> TRUE, index |-> index, list |-> l]
         ELSE [panic |-> FALSE, index |-> index,
               list |-> [l EXCEPT
                   !.contents = SetSlot(l.contents, index,
                                        Occupied(it, stamp(l), n, p)),
                   !.count = inc(l.count),
                   !.next_free = pop_free(l, index)]]
    ELSE [panic |-> FALSE, index |-> Len(l.contents),
          list |-> [l EXCEPT
              !.contents = Append(l.contents, Occupied(it, stamp(l), n, p)),
              !.count = inc(l.count),
              !.next_free = None]]

\* (variant: the former tail keeps next = None)
link_tail_skipped(c, tail, index) == c

\* push_back: the former tail's next link is set to the new slot
link_tail(c, tail, index) ==
    IF tail # None /\ IsOccupied(c, Unwrap(tail))
    THEN SetSlot(c, Unwrap(tail), [Slot(c, Unwrap(tail)) EXCEPT !.next = Some(index)])
    ELSE c

push_back(l, it) ==
    LET a == alloc(l, it, None, l.tail)
        reused == l.next_free # None
        index == a.index
        l1 == a.list
        head1 == IF l1.head = None
                 THEN (IF reused THEN Some(index) ELSE Some(0))
                 ELSE l1.head
        c2 == link_tail(l1.contents, l1.tail, index)
    IN  IF a.panic THEN Panic(l)
        ELSE IF l1.tail # None /\ ~InRange(l1.contents, Unwrap(l1.tail))
        THEN Panic([l1 EXCEPT !.head = head1])
        ELSE Ret([l1 EXCEPT !.contents = c2, !.head = head1, !.tail = Some(index)],
                 Some(Index(index, stamp(l))))

\* (variant: the former head keeps prev = None)
link_head_skipped(c, head, index) == c

\* push_front: the former head's prev link is set to the new slot
link_head(c, head, index) ==
    IF head # None /\ IsOccupied(c, Unwrap(head))
    THEN SetSlot(c, Unwrap(head), [Slot(c, Unwrap(head)) EXCEPT !.prev = Some(index)])
    ELSE c

push_front(l, it) ==
    LET a == alloc(l, it, l.head, None)
        reused == l.next_free # None
        index == a.index
        l1 == a.list
        tail1 == IF l1.tail = None
                 THEN (IF reused THEN Some(index) ELSE Some(0))
                 ELSE l1.tail
        c2 == link_head(l1.contents, l1.head, index)
    IN  IF a.panic THEN Panic(l)
        ELSE IF l1.head # None /\ ~InRange(l1.contents, Unwrap(l1.head))
        THEN Panic([l1 EXCEPT !.tail = tail1])
        ELSE Ret([l1 EXCEPT !.contents = c2, !.tail = tail1, !.head = Some(index)],
                 Some(Index(index, stamp(l))))

remove(l, index) ==
    IF ~lookup(l, index) THEN Ret(l, None)
    ELSE
    LET c == l.contents
        oc_next == Slot(c, index.index).next
        oc_prev == Slot(c, index.index).prev
        prevCorrupt == oc_prev # None /\ IsFree(c, Unwrap(oc_prev))
        c1 == relink_prev(c, oc_prev, oc_next)
        nextCorrupt == oc_next # None /\ IsFree(c1, Unwrap(oc_next))
        c2 == relink_next(c1, oc_next, oc_prev)
        oc == Slot(c2, index.index)
    IN  IF prevCorrupt THEN Panic(l)
        ELSE IF nextCorrupt THEN Panic([l EXCEPT !.contents = c1])
        ELSE Ret([contents |-> release(c2, index, l.next_free),
                  generation |-> bump(l.generation),
                  count |-> l.count - 1,
                  next_free |-> remove_next_free(l, index),
                  head |-> remove_head(l, index, oc),
                  tail |-> remove_tail(l, index, oc)],
                 Some(oc.item))

\* (variant: pop_front takes the last element)
front_is_tail(l) == l.tail

\* pop_front: the position it removes, self.head
front(l) == l.head

pop_front(l) ==
    IF front(l) # None
    THEN LET head == Unwrap(front(l)) IN
         IF ~InRange(l.contents, head) THEN Ret(l, None)
         ELSE IF Slot(l.contents, head).tag = "Free" THEN Panic(l)
         ELSE remove(l, Index(head, Slot(l.contents, head).generation))
    ELSE Ret(l, None)

\* (variant: the anchor's entry is written anew with the current generation)
link_anchor_restamped(l, oc, result_index) ==
    [oc EXCEPT !.prev = Some(result_index), !.generation = l.generation]

\* insert_before: the anchor's oc.prev = Some(result_index)
link_anchor(l, oc, result_index) == [oc EXCEPT !.prev = Some(result_index)]

\* (variant: head stays on the anchor)
insert_before_head_kept(l, index, result_index) == l.head

\* insert_before: head moves to the new slot when the anchor was the head
insert_before_head(l, index, result_index) ==
    IF l.head = Some(index.index) THEN Some(result_index) ELSE l.head

insert_before(l, index, it) ==
    IF ~lookup(l, index) THEN Ret(l, None)
    ELSE
    LET oc_prev == Slot(l.contents, index.index).prev
        a == alloc(l, it, Some(index.index), oc_prev)
        result_index == a.index
        l1 == a.list
        anchorOk == IsOccupied(l1.contents, index.index)
        c2 == SetSlot(l1.contents, index.index,
                link_anchor(l1, Slot(l1.contents, index.index), result_index))
        head2 == insert_before_head(l1, index, result_index)
        l2 == [l1 EXCEPT !.contents = c2, !.head = head2]
    IN  IF a.panic THEN Panic(l)
        ELSE IF ~anchorOk THEN Ret(l1, None)
        ELSE IF oc_prev = None THEN Ret(l2, None)
        ELSE IF ~IsOccupied(c2, Unwrap(oc_prev)) THEN Ret(l2, None)
        ELSE Ret([l2 EXCEPT !.contents = SetSlot(c2, Unwrap(oc_prev),
                     [Slot(c2, Unwrap(oc_prev)) EXCEPT !.next = Some(result_index)])],
                 Some(Index(result_index, stamp(l))))

\* (variant: the former successor keeps its prev link to the anchor)
link_successor_skipped(c, oc_next, result_index) == c

\* insert_after: the former successor's oc.prev = Some(result_index)
link_successor(c, oc_next, result_index) ==
    SetSlot(c, Unwrap(oc_next), [Slot(c, Unwrap(oc_next)) EXCEPT !.prev = Some(result_index)])

\* (variant: tail stays on the anchor)
insert_after_tail_kept(l, index, result_index) == l.tail

\* insert_after: tail moves to the new slot when the anchor was the tail
insert_after_tail(l, index, result_index) ==
    IF l.tail = Some(index.index) THEN Some(result_index) ELSE l.tail

insert_after(l, index, it) ==
    IF ~lookup(l, index) THEN Ret(l, None)
    ELSE
    LET oc_next == Slot(l.contents, index.index).next
        a == alloc(l, it, oc_next, Some(index.index))
        result_index == a.index
        l1 == a.list
        anchorOk == IsOccupied(l1.contents, index.index)
        c2 == SetSlot(l1.contents, index.index,
                [Slot(l1.contents, index.index) EXCEPT !.next = Some(result_index)])
        tail2 == insert_after_tail(l1, index, result_index)
        l2 == [l1 EXCEPT !.contents = c2, !.tail = tail2]
    IN  IF a.panic THEN Panic(l)
        ELSE IF ~anchorOk THEN Ret(l1, None)
        ELSE IF oc_next = None THEN Ret(l2, None)
        ELSE IF ~IsOccupied(c2, Unwrap(oc_next)) THEN Ret(l2, None)
        ELSE Ret([l2 EXCEPT !.contents = link_successor(c2, oc_next, result_index)],
                 Some(Index(result_index, stamp(l))))

get(l, index) ==
    IF ~InRange(l.contents, index.index) THEN Ret(l, None)
    ELSE LET e == Slot(l.contents, index.index) IN
         IF e.tag = "Occupied"
         THEN (IF e.generation # index.generation THEN Ret(l, None)
               ELSE Ret(l, Some(e.item)))
         ELSE Panic(l)

get_mut(l, index) ==
    IF ~InRange(l.contents, index.index) THEN Ret(l, None)
    ELSE LET e == Slot(l.contents, index.index) IN
         IF e.tag = "Occupied"
         THEN (IF e.generation # index.generation THEN Ret(l, None)
               ELSE Ret(l, Some(e.item)))
         ELSE Panic(l)

\* (variant: a Free slot is taken for corruption, as get does)
next_index_strict(l, index) ==
    IF ~InRange(l.contents, index.index) THEN Ret(l, None)
    ELSE LET oc == Slot(l.contents, index.index) IN
         IF oc.tag = "Occupied"
         THEN (IF index.generation # oc.generation THEN Ret(l, None)
               ELSE IF oc.next = None THEN Ret(l, None)
               ELSE Ret(l, Some(Index(Unwrap(oc.next), oc.generation))))
         ELSE Panic(l)

next_index(l, index) ==
    IF ~InRange(l.contents, index.index) THEN Ret(l, None)
    ELSE LET oc == Slot(l.contents, index.index) IN
         IF oc.tag = "Occupied"
         THEN (IF index.generation # oc.generation THEN Ret(l, None)
               ELSE IF oc.next = None THEN Ret(l, None)
               ELSE Ret(l, Some(Index(Unwrap(oc.next), oc.generation))))
         ELSE Ret(l, None)

prev_index(l, index) ==
    IF ~InRange(l.contents, index.index) THEN Ret(l, None)
    ELSE LET oc == Slot(l.contents, index.index) IN
         IF oc.tag = "Occupied"
         THEN (IF index.generation # oc.generation THEN Ret(l, None)
               ELSE IF oc.prev = None THEN Ret(l, None)
               ELSE Ret(l, Some(Index(Unwrap(oc.prev), oc.generation))))
         ELSE Ret(l, None)

\* IndexList::head (the field head is a variable of this module)
head_of(l) ==
    IF l.head = None \/ ~InRange(l.contents, Unwrap(l.head)) THEN Ret(l, None)
    ELSE LET e == Slot(l.contents, Unwrap(l.head)) IN
         IF e.tag = "Occupied" THEN Ret(l, Some(e.item)) ELSE Ret(l, None)

head_mut(l) ==
    IF l.head = None \/ ~InRange(l.contents, Unwrap(l.head)) THEN Ret(l, None)
    ELSE LET e == Slot(l.contents, Unwrap(l.head)) IN
         IF e.tag = "Occupied" THEN Ret(l, Some(e.item)) ELSE Ret(l, None)

len(l) == Ret(l, l.count)

head_index(l) ==
    IF l.head = None \/ ~InRange(l.contents, Unwrap(l.head)) THEN Ret(l, None)
    ELSE LET e == Slot(l.contents, Unwrap(l.head)) IN
         IF e.tag = "Occupied" THEN Ret(l, Some(Index(Unwrap(l.head), e.generation)))
         ELSE Ret(l, None)

tail_index(l) ==
    IF l.tail = None \/ ~InRange(l.contents, Unwrap(l.tail)) THEN Ret(l, None)
    ELSE LET e == Slot(l.contents, Unwrap(l.tail)) IN
         IF e.tag = "Occupied" THEN Ret(l, Some(Index(Unwrap(l.tail), e.generation)))
         ELSE Ret(l, None)

\* the loop of index_of, from cursor iter; fuel counts the slots not yet
\* visited (a chain longer than the vector would never end)
RECURSIVE index_of_from(_, _, _, _)
index_of_from(l, iter, it, fuel) ==
    IF iter = None THEN Ret(l, None)
    ELSE IF fuel = 0 \/ ~IsOccupied(l.contents, Unwrap(iter)) THEN Panic(l)
    ELSE LET oc == Slot(l.contents, Unwrap(iter)) IN
         IF oc.item = it THEN Ret(l, Some(Index(Unwrap(iter), oc.generation)))
         ELSE index_of_from(l, oc.next, it, fuel - 1)

\* (variant: the scan goes over the vector in slot order)
index_of_slot_order(l, it) ==
    LET hits == {i \in 0 .. (Len(l.contents) - 1) :
                   IsOccupied(l.contents, i) /\ Slot(l.contents, i).item = it}
        first == CHOOSE i \in hits : \A j \in hits : i <= j
    IN  IF hits = {} THEN Ret(l, None)
        ELSE Ret(l, Some(Index(first, Slot(l.contents, first).generation)))

index_of(l, it) == index_of_from(l, l.head, it, Len(l.contents))

\* IndexList::iter: the iterator's first cursor
iter(l) ==
    IF l.head # None
    THEN (IF IsOccupied(l.contents, Unwrap(l.head))
          THEN Ret(l, Some(Index(Unwrap(l.head),
                                 Slot(l.contents, Unwrap(l.head)).generation)))
          ELSE Panic(l))
    ELSE Ret(l, None)

\* (variant: the cursor is not advanced)
Iter_next_stuck(l, cur) ==
    IF cur = None THEN [index |-> None, res |-> None, panic |-> FALSE]
    ELSE [index |-> cur, res |-> get(l, Unwrap(cur)).res, panic |-> get(l, Unwrap(cur)).panic]

\* Iter::next with cursor cur: the new cursor and the element yielded
Iter_next(l, cur) ==
    IF cur = None THEN [index |-> None, res |-> None, panic |-> FALSE]
    ELSE LET index == Unwrap(cur)
             g == get(l, index)
         IN  [index |-> next_index(l, index).res, res |-> g.res, panic |-> g.panic]

\* a whole pass `for x in &list`: the elements yielded until next() is None
RECURSIVE Iter_collect(_, _, _, _)
Iter_collect(l, cur, acc, fuel) ==
    LET n == Iter_next(l, cur) IN
    IF n.panic \/ fuel = 0 THEN [list |-> l, res |-> acc, panic |-> TRUE]
    ELSE IF n.res = None THEN Ret(l, acc)
    ELSE Iter_collect(l, n.index, Append(acc, Unwrap(n.res)), fuel - 1)

\* (variant: the pass moves the list's own head along)
iter_pass_consuming(l) ==
    [list |-> [l EXCEPT !.head = None],
     res |-> Iter_collect(l, iter(l).res, <<>>, Len(l.contents) + 1).res,
     panic |-> FALSE]

iter_pass(l) ==
    IF iter(l).panic THEN [list |-> l, res |-> <<>>, panic |-> TRUE]
    ELSE Iter_collect(l, iter(l).res, <<>>, Len(l.contents) + 1)

\* self.iter().any(|e| e == value): stops at the first match
RECURSIVE Iter_any(_, _, _, _)
Iter_any(l, cur, value, fuel) ==
    LET n == Iter_next(l, cur) IN
    IF n.panic \/ fuel = 0 THEN [list |-> l, res |-> FALSE, panic |-> TRUE]
    ELSE IF n.res = None THEN Ret(l, FALSE)
    ELSE IF Unwrap(n.res) = value THEN Ret(l, TRUE)
    ELSE Iter_any(l, n.index, value, fuel - 1)

contains(l, value) ==
    IF iter(l).panic THEN [list |-> l, res |-> FALSE, panic |-> TRUE]
    ELSE Iter_any(l, iter(l).res, value, Len(l.contents) + 1)

\* IndexList::iter_mut: the first cursor, as in iter
iter_mut(l) == iter(l)

\* a whole pass `for x in &mut list`, the caller storing w through every
\* reference it is given (w = None: it only reads).  IterMut::next advances the
\* cursor with next_index and yields get_mut of the former cursor; the pass
\* ends when that is None.  items: the elements as yielded, slots: the
\* positions the references point to.
RECURSIVE IterMut_collect(_, _, _, _, _, _)
IterMut_collect(l, cur, w, items, slots, fuel) ==
    IF cur = None THEN [list |-> l, res |-> items, slots |-> slots, panic |-> FALSE]
    ELSE LET index == Unwrap(cur)
             n == next_index(l, index).res
             g == get_mut(l, index)
             l1 == IF w = None THEN l
                   ELSE [l EXCEPT !.contents = SetSlot(l.contents, index.index,
                            [Slot(l.contents, index.index) EXCEPT !.item = Unwrap(w)])]
         IN  IF g.panic \/ fuel = 0
             THEN [list |-> l, res |-> items, slots |-> slots, panic |-> TRUE]
             ELSE IF g.res = None
             THEN [list |-> l, res |-> items, slots |-> slots, panic |-> FALSE]
             ELSE IterMut_collect(l1, n, w, Append(items, Unwrap(g.res)),
                                  Append(slots, index.index), fuel - 1)

iter_mut_pass(l, w) ==
    IF iter_mut(l).panic THEN [list |-> l, res |-> <<>>, slots |-> <<>>, panic |-> TRUE]
    ELSE IterMut_collect(l, iter_mut(l).res, w, <<>>, <<>>, Len(l.contents) + 1)

\* IndexList::iter_own: the list moves into the iterator, first cursor as in iter
iter_own(l) == iter(l)

\* a whole pass `for x in list`.  IterOwn::next advances the cursor with
\* next_index, then swaps the slot at the former cursor's position for
\* Free { next_free: None } whatever generation the cursor carries, and yields
\* the item it held; a Free slot there is a panic.
RECURSIVE IterOwn_collect(_, _, _, _, _)
IterOwn_collect(l, cur, items, slots, fuel) ==
    IF cur = None THEN [list |-> l, res |-> items, slots |-> slots, panic |-> FALSE]
    ELSE LET index == Unwrap(cur)
             n == next_index(l, index).res
         IN  IF fuel = 0 \/ ~IsOccupied(l.contents, index.index)
             THEN [list |-> l, res |-> items, slots |-> slots, panic |-> TRUE]
             ELSE IterOwn_collect(
                    [l EXCEPT !.contents = SetSlot(l.contents, index.index, Free(None))],
                    n, Append(items, Slot(l.contents, index.index).item),
                    Append(slots, index.index), fuel - 1)

iter_own_pass(l) ==
    IF iter_own(l).panic THEN [list |-> l, res |-> <<>>, slots |-> <<>>, panic |-> TRUE]
    ELSE IterOwn_collect(l, iter_own(l).res, <<>>, <<>>, Len(l.contents) + 1)

\* IterMut::next with cursor cur, the caller storing w through the reference:
\* the list, the new cursor and the element yielded
IterMut_next(l, cur, w) ==
    IF cur = None THEN [list |-> l, index |-> None, res |-> None, panic |-> FALSE]
    ELSE LET index == Unwrap(cur)
             g == get_mut(l, index)
         IN  [list |-> IF g.res = None \/ w = None THEN l
                       ELSE [l EXCEPT !.contents = SetSlot(l.contents, index.index,
                                [Slot(l.contents, index.index) EXCEPT !.item = Unwrap(w)])],
              index |-> next_index(l, index).res, res |-> g.res, panic |-> g.panic]

\* IterOwn::next with cursor cur: the iterator's list, the new cursor and the
\* element yielded
IterOwn_next(l, cur) ==
    IF cur = None THEN [list |-> l, index |-> None, res |-> None, panic |-> FALSE]
    ELSE LET index == Unwrap(cur) IN
         IF ~IsOccupied(l.contents, index.index)
         THEN [list |-> l, index |-> next_index(l, index).res, res |-> None, panic |-> TRUE]
         ELSE [list |-> [l EXCEPT !.contents = SetSlot(l.contents, index.index, Free(None))],
               index |-> next_index(l, index).res,
               res |-> Some(Slot(l.contents, index.index).item), panic |-> FALSE]

\* the iterator (its list and cursor) after next() has been called until it
\* returned None, and the number of elements yielded on the way; kind is
\* "iter", "iter_mut" or "iter_own"
RECURSIVE drain(_, _, _, _, _, _)
drain(kind, l, cur, w, yielded, fuel) ==
    LET n == IF kind = "iter"
             THEN [list |-> l, index |-> Iter_next(l, cur).index,
                   res |-> Iter_next(l, cur).res, panic |-> Iter_next(l, cur).panic]
             ELSE IF kind = "iter_mut" THEN IterMut_next(l, cur, w)
             ELSE IterOwn_next(l, cur)
    IN  IF n.panic \/ fuel = 0
        THEN [list |-> l, index |-> cur, yielded |-> yielded, panic |-> TRUE]
        ELSE IF n.res = None
        THEN [list |-> n.list, index |-> n.index, yielded |-> yielded, panic |-> FALSE]
        ELSE drain(kind, n.list, n.index, w, yielded + 1, fuel - 1)

\* ---------------------------------------------------------------- walks
\* the slots met from cur along the next links (dir "next"), the prev links
\* ("prev") or the free chain ("free"); a slot of the wrong kind, or a walk
\* longer than the vector, ends the walk with the mark -1 (the tests' assert)
RECURSIVE walk(_, _, _, _)
walk(c, cur, dir, fuel) ==
    IF cur = None THEN <<>>
    ELSE LET i == Unwrap(cur) IN
         IF fuel = 0 \/ ~InRange(c, i) THEN <<-1>>
         ELSE IF dir = "free"
         THEN (IF Slot(c, i).tag = "Free"
               THEN <<i>> \o walk(c, Slot(c, i).next_free, dir, fuel - 1)
               ELSE <<-1>>)
         ELSE IF Slot(c, i).tag = "Occupied"
         THEN <<i>> \o walk(c, IF dir = "next" THEN Slot(c, i).next ELSE Slot(c, i).prev,
                            dir, fuel - 1)
         ELSE <<-1>>

forward(l) == walk(l.contents, l.head, "next", Len(l.contents))

backward(l) == walk(l.contents, l.tail, "prev", Len(l.contents))

free_chain(l) == walk(l.contents, l.next_free, "free", Len(l.contents))

Range(s) == {s[i] : i \in DOMAIN s}

Reverse(s) == [i \in DOMAIN s |-> s[Len(s) + 1 - i]]

IsInjective(s) == Cardinality(Range(s)) = Len(s)

OccupiedSlots(l) == {i \in 0 .. (Len(l.contents) - 1) : Slot(l.contents, i).tag = "Occupied"}

FreeSlots(l) == {i \in 0 .. (Len(l.contents) - 1) : Slot(l.contents, i).tag = "Free"}

\* the elements in sequence order, head to tail and tail to head
to_vec_forward(l) == [i \in DOMAIN forward(l) |-> Slot(l.contents, forward(l)[i]).item]

to_vec_backward(l) == [i \in DOMAIN backward(l) |-> Slot(l.contents, backward(l)[i]).item]

\* the invariants 1 to 5 of the data model, as check_invariants asserts them
check_invariants(l) ==
    /\ l.count = Cardinality(OccupiedSlots(l))
    /\ Range(forward(l)) = OccupiedSlots(l) /\ IsInjective(forward(l))
    /\ backward(l) = Reverse(forward(l))
    /\ Len(forward(l)) = l.count
    /\ l.count > 0 =>
         /\ l.head = Some(forward(l)[1])
         /\ l.tail = Some(forward(l)[Len(forward(l))])
         /\ Slot(l.contents, Unwrap(l.head)).prev = None
         /\ Slot(l.contents, Unwrap(l.tail)).next = None
    /\ (l.head = None) = (l.count = 0)
    /\ (l.tail = None) = (l.count = 0)
    /\ Range(free_chain(l)) = FreeSlots(l) /\ IsInjective(free_chain(l))

\* ---------------------------------------------------------------- state
\* the six fields of IndexList; fault: a call panicked and the process is
\* gone; last: the call in flight (its name, arguments and outcome) until the
\* caller takes the result, and before: the list as that call found it;
\* removed: the handles whose remove has succeeded
VARIABLES contents, generation, next_free, head, tail, count, fault, last, before,
          removed

vars == <<contents, generation, next_free, head, tail, count, fault, last, before,
          removed>>

self == IndexList(contents, generation, next_free, head, tail, count)

Handles == [index : 0 .. MaxSlots, generation : 0 .. MaxGen]

\* the record of a call: its name, its handle and element arguments, and what
\* it returned by type: res an Option<T>, index an Option<Index<T>>, found a
\* bool, items the elements an iterator yielded and slots their positions,
\* size a usize
Call(op, arg, it) ==
    [op |-> op, arg |-> arg, item |-> it,
     res |-> None, index |-> None, found |-> FALSE, items |-> <<>>, slots |-> <<>>,
     size |-> 0]

Idle == Call("idle", None, None)

Init ==
    /\ contents = default.contents
    /\ generation = default.generation
    /\ next_free = default.next_free
    /\ head = default.head
    /\ tail = default.tail
    /\ count = default.count
    /\ fault = FALSE
    /\ last = Idle
    /\ before = default
    /\ removed = {}

\* the caller is between two calls
Ready == ~fault /\ last.op = "idle"

Apply(r) ==
    /\ contents' = r.list.contents
    /\ generation' = r.list.generation
    /\ next_free' = r.list.next_free
    /\ head' = r.list.head
    /\ tail' = r.list.tail
    /\ count' = r.list.count
    /\ fault' = r.panic
    /\ before' = self

\* the vector is capped at MaxSlots and the generation counter at MaxGen
CanGrow == next_free # None \/ Len(contents) < MaxSlots

CanRemove == generation < MaxGen

CallPushBack == \E v \in Values :
    /\ Ready /\ CanGrow
    /\ Apply(push_back(self, v))
    /\ last' = [Call("push_back", None, Some(v)) EXCEPT !.index = push_back(self, v).res]
    /\ UNCHANGED removed

CallPushFront == \E v \in Values :
    /\ Ready /\ CanGrow
    /\ Apply(push_front(self, v))
    /\ last' = [Call("push_front", None, Some(v)) EXCEPT !.index = push_front(self, v).res]
    /\ UNCHANGED removed

CallPopFront ==
    /\ Ready /\ (head # None => CanRemove)
    /\ Apply(pop_front(self))
    /\ last' = [Call("pop_front", None, None) EXCEPT !.res = pop_front(self).res]
    /\ removed' = IF pop_front(self).res # None
                  THEN removed \cup {Index(Unwrap(head), Slot(contents, Unwrap(head)).generation)}
                  ELSE removed

CallRemove == \E h \in Handles :
    /\ Ready /\ (IsValid(self, h) => CanRemove)
    /\ Apply(remove(self, h))
    /\ last' = [Call("remove", Some(h), None) EXCEPT !.res = remove(self, h).res]
    /\ removed' = IF remove(self, h).res # None THEN removed \cup {h} ELSE removed

CallInsertBefore == \E h \in Handles, v \in Values :
    /\ Ready /\ (IsValid(self, h) => CanGrow)
    /\ Apply(insert_before(self, h, v))
    /\ last' = [Call("insert_before", Some(h), Some(v)) EXCEPT !.index = insert_before(self, h, v).res]
    /\ UNCHANGED removed

CallInsertAfter == \E h \in Handles, v \in Values :
    /\ Ready /\ (IsValid(self, h) => CanGrow)
    /\ Apply(insert_after(self, h, v))
    /\ last' = [Call("insert_after", Some(h), Some(v)) EXCEPT !.index = insert_after(self, h, v).res]
    /\ UNCHANGED removed

CallGet == \E h \in Handles :
    /\ Ready
    /\ Apply(get(self, h))
    /\ last' = [Call("get", Some(h), None) EXCEPT !.res = get(self, h).res]
    /\ UNCHANGED removed

CallGetMut == \E h \in Handles :
    /\ Ready
    /\ Apply(get_mut(self, h))
    /\ last' = [Call("get_mut", Some(h), None) EXCEPT !.res = get_mut(self, h).res]
    /\ UNCHANGED removed

CallNextIndex == \E h \in Handles :
    /\ Ready
    /\ Apply(next_index(self, h))
    /\ last' = [Call("next_index", Some(h), None) EXCEPT !.index = next_index(self, h).res]
    /\ UNCHANGED removed

CallPrevIndex == \E h \in Handles :
    /\ Ready
    /\ Apply(prev_index(self, h))
    /\ last' = [Call("prev_index", Some(h), None) EXCEPT !.index = prev_index(self, h).res]
    /\ UNCHANGED removed

CallIndexOf == \E v \in Values :
    /\ Ready
    /\ Apply(index_of(self, v))
    /\ last' = [Call("index_of", None, Some(v)) EXCEPT !.index = index_of(self, v).res]
    /\ UNCHANGED removed

CallContains == \E v \in Values :
    /\ Ready
    /\ Apply(contains(self, v))
    /\ last' = [Call("contains", None, Some(v)) EXCEPT !.found = contains(self, v).res]
    /\ UNCHANGED removed

CallIter ==
    /\ Ready
    /\ Apply(iter_pass(self))
    /\ last' = [Call("iter", None, None) EXCEPT !.items = iter_pass(self).res]
    /\ UNCHANGED removed

CallHead ==
    /\ Ready
    /\ Apply(head_of(self))
    /\ last' = [Call("head", None, None) EXCEPT !.res = head_of(self).res]
    /\ UNCHANGED removed

CallHeadMut ==
    /\ Ready
    /\ Apply(head_mut(self))
    /\ last' = [Call("head_mut", None, None) EXCEPT !.res = head_mut(self).res]
    /\ UNCHANGED removed

CallHeadIndex ==
    /\ Ready
    /\ Apply(head_index(self))
    /\ last' = [Call("head_index", None, None) EXCEPT !.index = head_index(self).res]
    /\ UNCHANGED removed

CallTailIndex ==
    /\ Ready
    /\ Apply(tail_index(self))
    /\ last' = [Call("tail_index", None, None) EXCEPT !.index = tail_index(self).res]
    /\ UNCHANGED removed

CallLen ==
    /\ Ready
    /\ Apply(len(self))
    /\ last' = [Call("len", None, None) EXCEPT !.size = len(self).res]
    /\ UNCHANGED removed

\* `for x in &mut list { *x = w }`, or a pass that only reads
CallIterMut == \E w \in {None} \cup {Some(v) : v \in Values} :
    /\ Ready
    /\ Apply(iter_mut_pass(self, w))
    /\ last' = [Call("iter_mut", None, w) EXCEPT !.items = iter_mut_pass(self, w).res,
                                                 !.slots = iter_mut_pass(self, w).slots]
    /\ UNCHANGED removed

\* `for x in list`: the list is moved into the iterator and dropped with it, so
\* the caller has no list afterwards and no call can follow; the six fields
\* keep the value that was moved
CallIterOwn ==
    /\ Ready
    /\ fault' = iter_own_pass(self).panic
    /\ before' = self
    /\ last' = [Call("iter_own", None, None) EXCEPT !.items = iter_own_pass(self).res,
                                                    !.slots = iter_own_pass(self).slots]
    /\ UNCHANGED <<contents, generation, next_free, head, tail, count, removed>>

\* the caller takes the result of the call in flight
Return ==
    /\ ~fault /\ last.op \notin {"idle", "iter_own"}
    /\ last' = Idle
    /\ before' = default
    /\ UNCHANGED <<contents, generation, next_free, head, tail, count, fault, removed>>

Next ==
    \/ CallPushBack
    \/ CallPushFront
    \/ CallPopFront
    \/ CallRemove
    \/ CallInsertBefore
    \/ CallInsertAfter
    \/ CallGet
    \/ CallGetMut
    \/ CallNextIndex
    \/ CallPrevIndex
    \/ CallIndexOf
    \/ CallContains
    \/ CallIter
    \/ CallIterMut
    \/ CallIterOwn
    \/ CallHead
    \/ CallHeadMut
    \/ CallHeadIndex
    \/ CallTailIndex
    \/ CallLen
    \/ Return

Spec == Init /\ [][Next]_vars

\* ---------------------------------------------------------------- claims
InsertOps == {"push_back", "push_front", "insert_before", "insert_after"}

MutatingOps == InsertOps \cup {"remove", "pop_front"}

\* the handle given to the call in flight
Arg == Unwrap(last.arg)

\* C1: a slot reused after remove(h) carries a generation strictly greater than
\* h's, the handle returned by the reusing insertion too, and in that state
\* get(h), next_index(h), prev_index(h) and remove(h) all return None.
C1_SlotReuseBumpsGeneration ==
    /\ \A h \in removed :
         IsOccupied(contents, h.index) =>
           /\ Slot(contents, h.index).generation > h.generation
           /\ get(self, h) = Ret(self, None)
           /\ next_index(self, h) = Ret(self, None)
           /\ prev_index(self, h) = Ret(self, None)
           /\ remove(self, h) = Ret(self, None)
    /\ (last.op \in InsertOps /\ last.index # None) =>
         \A h \in removed :
           h.index = Unwrap(last.index).index =>
             Unwrap(last.index).generation > h.generation

\* an insertion has just returned a handle to the slot of a removed handle
C1_Witness ==
    /\ last.op \in InsertOps /\ last.index # None
    /\ \E h \in removed : h.index = Unwrap(last.index).index
    /\ IsFree(before.contents, Unwrap(last.index).index)

\* C2: a handle whose remove has succeeded is never valid again, however often
\* its slot is reused; no call given it yields an element or changes the list.
C2_PermanentInvalidation ==
    \A h \in removed :
      /\ ~IsValid(self, h)
      /\ get(self, h).res = None /\ get(self, h).list = self
      /\ get_mut(self, h).res = None /\ get_mut(self, h).list = self
      /\ next_index(self, h) = Ret(self, None)
      /\ prev_index(self, h) = Ret(self, None)
      /\ remove(self, h) = Ret(self, None)
      /\ \A v \in Values :
           /\ insert_before(self, h, v) = Ret(self, None)
           /\ insert_after(self, h, v) = Ret(self, None)

\* the slot of a removed handle has been reused, freed again and reused again
C2_Witness ==
    \E h1 \in removed, h2 \in removed :
      /\ h1.index = h2.index /\ h1.generation < h2.generation
      /\ IsOccupied(contents, h1.index)

\* C3 (as claimed): get and get_mut with a handle that is not valid return
\* None and do not abort.
C3_GetNeverFaults ==
    (last.op \in {"get", "get_mut"} /\ ~IsValid(before, Arg)) =>
      (~fault /\ last.res = None)

\* C4 (as claimed): insert_before and insert_after return None iff the anchor
\* is invalid; with a valid anchor they return a handle n with get(n) = v.
C4_InsertReturnsHandleIffValid ==
    last.op \in {"insert_before", "insert_after"} =>
      /\ ~fault
      /\ (last.index = None) = ~IsValid(before, Arg)
      /\ IsValid(before, Arg) =>
           IF last.index = None THEN FALSE
           ELSE get(self, Unwrap(last.index)) = Ret(self, last.item)

\* C5: remove, insert_before and insert_after given an invalid handle return
\* None and leave the whole list as it was; every mutating call that changes
\* the list leaves the invariants 1 to 5 restored.
C5_NoMutationOnInvalidHandle ==
    /\ (last.op \in {"remove", "insert_before", "insert_after"}
        /\ ~IsValid(before, Arg)) =>
         (self = before /\ ~fault /\ last.res = None /\ last.index = None)
    /\ (last.op \in MutatingOps /\ self # before) => check_invariants(self)

\* a mutating call was given the stale handle of a slot that is in use again
C5_Witness ==
    /\ last.op \in {"remove", "insert_before", "insert_after"}
    /\ Arg \in removed
    /\ ~IsValid(before, Arg)
    /\ IsOccupied(before.contents, Arg.index)

\* C6: the walk along next from head and the walk along prev from tail visit
\* exactly the Occupied slots, are the reverse of each other, and have length
\* count.
C6_OrderPreservation ==
    /\ Range(forward(self)) = OccupiedSlots(self)
    /\ Range(backward(self)) = OccupiedSlots(self)
    /\ backward(self) = Reverse(forward(self))
    /\ to_vec_backward(self) = Reverse(to_vec_forward(self))
    /\ Len(forward(self)) = count
    /\ Len(backward(self)) = count

\* three elements whose sequence order is not the slot order, after a removal
C6_Witness ==
    /\ last.op \in MutatingOps
    /\ count = 3
    /\ removed # {}
    /\ forward(self)[1] > forward(self)[2]

\* C7 (as claimed): a pass of iter() yields exactly count elements, those of
\* the Occupied slots in sequence order.
C7_IterComplete ==
    last.op = "iter" =>
      /\ ~fault
      /\ Len(last.items) = count
      /\ last.items = to_vec_forward(self)

\* C8 (as claimed): next_index(h) is the successor's slot with the successor's
\* own generation (a valid handle of the successor's element), None at the
\* tail or for an invalid h; prev_index likewise for the predecessor.
C8_NeighbourHandle ==
    /\ last.op = "next_index" =>
         last.index =
           IF IsValid(before, Arg) /\ Slot(before.contents, Arg.index).next # None
           THEN LET n == Unwrap(Slot(before.contents, Arg.index).next)
                IN  Some(Index(n, Slot(before.contents, n).generation))
           ELSE None
    /\ last.op = "prev_index" =>
         last.index =
           IF IsValid(before, Arg) /\ Slot(before.contents, Arg.index).prev # None
           THEN LET p == Unwrap(Slot(before.contents, Arg.index).prev)
                IN  Some(Index(p, Slot(before.contents, p).generation))
           ELSE None

\* C9 (as claimed): contains(v) is true exactly when index_of(v) returns a
\* handle, that is exactly when some live element equals v.
C9_ContainsIffIndexOf ==
    last.op = "contains" =>
      /\ ~fault
      /\ last.found = (index_of(before, Unwrap(last.item)).res # None)
      /\ last.found = (\E i \in OccupiedSlots(before) :
                        Slot(before.contents, i).item = Unwrap(last.item))

\* C10: remove(h) with a valid h returns h's element, lowers count by one, and
\* leaves the sequence as it was with that one slot deleted, the other
\* elements in their order; head and tail follow at a boundary.
C10_RemoveSplices ==
    (last.op = "remove" /\ IsValid(before, Arg)) =>
      LET keep(i) == i # Arg.index
          rest == SelectSeq(forward(before), keep)
      IN  /\ ~fault
          /\ last.res = Some(Slot(before.contents, Arg.index).item)
          /\ count = before.count - 1
          /\ forward(self) = rest
          /\ backward(self) = Reverse(rest)
          /\ \A i \in Range(rest) : Slot(contents, i).item = Slot(before.contents, i).item
          /\ head = IF rest = <<>> THEN None ELSE Some(rest[1])
          /\ tail = IF rest = <<>> THEN None ELSE Some(rest[Len(rest)])
          /\ before.head # Some(Arg.index) => head = before.head
          /\ before.tail # Some(Arg.index) => tail = before.tail

\* an interior element of a list of three has just been removed
C10_Witness ==
    /\ last.op = "remove" /\ last.res # None
    /\ before.count = 3
    /\ forward(before)[2] = Arg.index

\* C11: the first remove(h) with a valid h returns the element and a second
\* remove(h) right after it returns None and changes nothing; a remove(h) that
\* comes later, after other calls (the slot may be in use again), likewise.
C11_IdempotentRemove ==
    /\ (last.op = "remove" /\ IsValid(before, Arg)) =>
         /\ last.res = Some(Slot(before.contents, Arg.index).item)
         /\ remove(self, Arg) = Ret(self, None)
    /\ (last.op = "remove" /\ Arg \in removed /\ ~IsValid(before, Arg)) =>
         (last.res = None /\ self = before /\ ~fault)

\* remove was called again with a handle removed earlier, its slot reused since
C11_Witness ==
    /\ last.op = "remove" /\ last.res = None
    /\ Arg \in removed
    /\ IsOccupied(before.contents, Arg.index)
    /\ Slot(before.contents, Arg.index).generation > Arg.generation

\* the sequence s with x put in at position k
InsertAt(s, k, x) ==
    [j \in 1 .. (Len(s) + 1) |-> IF j < k THEN s[j] ELSE IF j = k THEN x ELSE s[j - 1]]

\* the position of slot i in the forward walk of l
PosOf(l, i) == CHOOSE k \in DOMAIN forward(l) : forward(l)[k] = i

\* the slot that was not Occupied before the call in flight and is now
NewSlot == CHOOSE i \in OccupiedSlots(self) : ~IsOccupied(before.contents, i)

\* C12: insert_before(h, v) with a valid anchor h puts v directly in front of
\* the anchor's element: the forward sequence is the former one with the new
\* slot inserted at the anchor's position, count grows by one, h stays valid,
\* and head becomes the new slot exactly when the anchor was the head.
C12_InsertBeforePlaces ==
    (last.op = "insert_before" /\ IsValid(before, Arg)) =>
      LET k == PosOf(before, Arg.index) IN
      /\ ~fault
      /\ OccupiedSlots(self) = OccupiedSlots(before) \cup {NewSlot}
      /\ forward(self) = InsertAt(forward(before), k, NewSlot)
      /\ to_vec_forward(self) = InsertAt(to_vec_forward(before), k, Unwrap(last.item))
      /\ backward(self) = Reverse(forward(self))
      /\ count = before.count + 1
      /\ IsValid(self, Arg)
      /\ (head = Some(NewSlot)) = (before.head = Some(Arg.index))
      /\ before.head # Some(Arg.index) => head = before.head
      /\ tail = before.tail

\* an element was inserted between the two elements of a list, into a reused
\* slot
C12_Witness ==
    /\ last.op = "insert_before" /\ IsValid(before, Arg)
    /\ before.head # Some(Arg.index)
    /\ before.count = 2
    /\ IsFree(before.contents, NewSlot)

\* C13: insert_after(h, v) with a valid anchor h puts v directly behind the
\* anchor's element: the forward sequence is the former one with the new slot
\* inserted after the anchor's position, count grows by one, h stays valid,
\* and tail becomes the new slot exactly when the anchor was the tail.
C13_InsertAfterPlaces ==
    (last.op = "insert_after" /\ IsValid(before, Arg)) =>
      LET k == PosOf(before, Arg.index) IN
      /\ ~fault
      /\ OccupiedSlots(self) = OccupiedSlots(before) \cup {NewSlot}
      /\ forward(self) = InsertAt(forward(before), k + 1, NewSlot)
      /\ to_vec_forward(self) = InsertAt(to_vec_forward(before), k + 1, Unwrap(last.item))
      /\ backward(self) = Reverse(forward(self))
      /\ count = before.count + 1
      /\ IsValid(self, Arg)
      /\ (tail = Some(NewSlot)) = (before.tail = Some(Arg.index))
      /\ before.tail # Some(Arg.index) => tail = before.tail
      /\ head = before.head

\* an element was inserted after the tail of a list of two, into a reused slot
C13_Witness ==
    /\ last.op = "insert_after" /\ IsValid(before, Arg)
    /\ before.tail = Some(Arg.index)
    /\ before.count = 2
    /\ IsFree(before.contents, NewSlot)

\* C14: push_back(v) appends in sequence order whatever slot it lands in: the
\* forward sequence is the former one followed by the new slot, tail is the
\* new slot, head is unchanged unless the list was empty, count grows by one,
\* and the handle returned is valid, get on it gives v, tail_index() gives it.
C14_PushBackAppends ==
    last.op = "push_back" =>
      /\ ~fault
      /\ last.index # None
      /\ LET h == Unwrap(last.index) IN
         /\ ~IsOccupied(before.contents, h.index)
         /\ forward(self) = Append(forward(before), h.index)
         /\ to_vec_forward(self) = Append(to_vec_forward(before), Unwrap(last.item))
         /\ backward(self) = Reverse(forward(self))
         /\ tail = Some(h.index)
         /\ head = IF before.count = 0 THEN Some(h.index) ELSE before.head
         /\ count = before.count + 1
         /\ IsValid(self, h)
         /\ get(self, h) = Ret(self, last.item)
         /\ tail_index(self) = Ret(self, Some(h))

\* push_back landed in a reused slot that lies below the former tail's slot
C14_Witness ==
    /\ last.op = "push_back" /\ last.index # None
    /\ before.count = 2
    /\ IsFree(before.contents, Unwrap(last.index).index)
    /\ Unwrap(last.index).index < Unwrap(before.tail)

\* C15: push_front(v) prepends in sequence order whatever slot it lands in:
\* the forward sequence is the new slot followed by the former one, head is
\* the new slot, tail is unchanged unless the list was empty, count grows by
\* one, and the handle returned is valid, get on it gives v, head_index()
\* gives it.
C15_PushFrontPrepends ==
    last.op = "push_front" =>
      /\ ~fault
      /\ last.index # None
      /\ LET h == Unwrap(last.index) IN
         /\ ~IsOccupied(before.contents, h.index)
         /\ forward(self) = <<h.index>> \o forward(before)
         /\ to_vec_forward(self) = <<Unwrap(last.item)>> \o to_vec_forward(before)
         /\ backward(self) = Reverse(forward(self))
         /\ head = Some(h.index)
         /\ tail = IF before.count = 0 THEN Some(h.index) ELSE before.tail
         /\ count = before.count + 1
         /\ IsValid(self, h)
         /\ get(self, h) = Ret(self, last.item)
         /\ head_index(self) = Ret(self, Some(h))

\* push_front landed in a reused slot that lies above the former head's slot
C15_Witness ==
    /\ last.op = "push_front" /\ last.index # None
    /\ before.count = 2
    /\ IsFree(before.contents, Unwrap(last.index).index)
    /\ Unwrap(last.index).index > Unwrap(before.head)

\* C16: pop_front() on a non-empty list returns the first element of the
\* sequence and does exactly what remove(head_index()) does, leaving the rest
\* of the sequence in its order (so elements pushed at the back come out in
\* the order they went in); on an empty list it returns None and changes
\* nothing.
C16_PopFrontRemovesHead ==
    last.op = "pop_front" =>
      /\ ~fault
      /\ IF before.count = 0
         THEN last.res = None /\ self = before
         ELSE /\ head_index(before).res # None
              /\ last.res = Some(to_vec_forward(before)[1])
              /\ Ret(self, last.res) = remove(before, Unwrap(head_index(before).res))
              /\ forward(self) = Tail(forward(before))
              /\ to_vec_forward(self) = Tail(to_vec_forward(before))

\* pop_front took the first of three elements, which was not in slot 0 and
\* not equal to the last one
C16_Witness ==
    /\ last.op = "pop_front" /\ last.res # None
    /\ before.count = 3
    /\ before.head # Some(0)
    /\ to_vec_forward(before)[1] # to_vec_forward(before)[3]

\* the call in flight took the element of handle h out of the list
Removes(h) ==
    \/ last.op = "remove" /\ Arg = h
    \/ last.op = "pop_front" /\ before.head = Some(h.index)

\* the call in flight let the caller store into the elements
Writes == last.op = "iter_mut" /\ last.item # None

\* C17: the handle an insertion returns is valid and get on it gives the
\* element inserted; every call leaves every valid handle valid, and get on
\* it giving the same element, except the handle whose element the call
\* removes (the array may grow, other slots may be freed and reused).
C17_HandleStability ==
    /\ (last.op \in InsertOps /\ last.index # None) =>
         /\ IsValid(self, Unwrap(last.index))
         /\ get(self, Unwrap(last.index)) = Ret(self, last.item)
    /\ \A h \in Handles :
         (IsValid(before, h) /\ ~Removes(h)) =>
           /\ IsValid(self, h)
           /\ ~Writes => get(self, h).res = get(before, h).res

\* an insertion grew the array while handles of two generations were valid
C17_Witness ==
    /\ last.op \in InsertOps
    /\ Len(contents) > Len(before.contents)
    /\ \E h1 \in Handles, h2 \in Handles :
         /\ IsValid(before, h1) /\ IsValid(before, h2)
         /\ h1.generation < h2.generation

\* C18: index_of(v) returns the handle of the first element equal to v in
\* sequence order (not slot order), carrying that slot's stored generation, so
\* that get on it gives v; it returns None iff no live element equals v.
C18_IndexOfFirstMatch ==
    last.op = "index_of" =>
      LET v == Unwrap(last.item)
          f == forward(before)
          hits == {k \in DOMAIN f : Slot(before.contents, f[k]).item = v}
          k1 == CHOOSE k \in hits : \A j \in hits : k <= j
      IN  /\ ~fault
          /\ self = before
          /\ (last.index = None) = (hits = {})
          /\ hits # {} =>
               /\ last.index = Some(Index(f[k1], Slot(before.contents, f[k1]).generation))
               /\ get(self, Unwrap(last.index)) = Ret(self, Some(v))

\* v occurs twice; its first occurrence in sequence order sits in a higher
\* slot than the second, whose slot was freed and reused
C18_Witness ==
    /\ last.op = "index_of" /\ last.index # None
    /\ \E i \in OccupiedSlots(before) :
         /\ i < Unwrap(last.index).index
         /\ Slot(before.contents, i).item = Unwrap(last.item)
         /\ Slot(before.contents, i).generation > 0

\* C19 (as claimed): a pass of iter_own() yields exactly count elements, those
\* of the sequence in the order of the next links from head.
C19_IterOwnComplete ==
    last.op = "iter_own" =>
      /\ ~fault
      /\ Len(last.items) = count
      /\ last.items = to_vec_forward(before)

\* C20 (as claimed): a pass of iter_mut() yields no slot twice and yields the
\* element of every Occupied slot in sequence order, so that what the caller
\* stores through the references shows in the forward traversal afterwards.
C20_IterMutOnce ==
    last.op = "iter_mut" =>
      /\ ~fault
      /\ IsInjective(last.slots)
      /\ last.slots = forward(before)
      /\ last.items = to_vec_forward(before)
      /\ forward(self) = forward(before)
      /\ last.item # None =>
           \A k \in DOMAIN forward(self) : to_vec_forward(self)[k] = Unwrap(last.item)

\* C21: head(), head_index() and tail_index() are None exactly when the list
\* is empty; otherwise head() is the first element of the sequence,
\* head_index() is a valid handle with get(head_index()) = head(), and
\* tail_index() is a valid handle of the last element of the sequence.
C21_HeadAndTailAccess ==
    /\ (head_of(self).res = None) = (count = 0)
    /\ (head_index(self).res = None) = (count = 0)
    /\ (tail_index(self).res = None) = (count = 0)
    /\ count > 0 =>
         LET hi == Unwrap(head_index(self).res)
             ti == Unwrap(tail_index(self).res)
         IN  /\ head_of(self) = Ret(self, Some(to_vec_forward(self)[1]))
             /\ IsValid(self, hi)
             /\ hi.index = forward(self)[1]
             /\ get(self, hi) = head_of(self)
             /\ IsValid(self, ti)
             /\ ti.index = forward(self)[Len(forward(self))]
    /\ last.op = "head" => (~fault /\ last.res = head_of(self).res)
    /\ last.op = "head_index" => (~fault /\ last.index = head_index(self).res)
    /\ last.op = "tail_index" => (~fault /\ last.index = tail_index(self).res)

\* head_index() was asked of a list whose first element is neither in slot 0
\* nor of generation 0
C21_Witness ==
    /\ last.op = "head_index" /\ last.index # None
    /\ count >= 2
    /\ Unwrap(last.index).index > 0
    /\ Unwrap(last.index).generation > 0

\* C22: in every non-empty state prev_index(head_index()) and
\* next_index(tail_index()) are None and the head slot's prev link and the
\* tail slot's next link are None; in every state head and tail are None iff
\* count is zero.
C22_BoundaryConsistency ==
    /\ (head = None) = (count = 0)
    /\ (tail = None) = (count = 0)
    /\ count > 0 =>
         /\ head_index(self).res # None
         /\ tail_index(self).res # None
         /\ prev_index(self, Unwrap(head_index(self).res)) = Ret(self, None)
         /\ next_index(self, Unwrap(tail_index(self).res)) = Ret(self, None)
         /\ Slot(contents, Unwrap(head)).prev = None
         /\ Slot(contents, Unwrap(tail)).next = None

\* the head of a list of three has just been removed
C22_Witness ==
    /\ last.op = "remove" /\ last.res # None
    /\ before.head = Some(Arg.index)
    /\ count = 2

\* the call in flight put an element into the list
DidInsert ==
    \/ last.op \in {"push_back", "push_front"}
    \/ last.op \in {"insert_before", "insert_after"} /\ IsValid(before, Arg)

\* the call in flight took an element out of the list
DidRemove ==
    \/ last.op = "remove" /\ IsValid(before, Arg)
    \/ last.op = "pop_front" /\ before.count > 0

\* C23: len() is the number of Occupied slots; count goes up by exactly one
\* with each insertion that succeeds, down by exactly one with each removal
\* that succeeds, and is left alone by every other call.
C23_LenCountsOccupied ==
    /\ len(self) = Ret(self, Cardinality(OccupiedSlots(self)))
    /\ last.op = "len" => (~fault /\ last.size = Cardinality(OccupiedSlots(self)))
    /\ last.op # "idle" =>
         count = before.count + (IF DidInsert THEN 1 ELSE IF DidRemove THEN -1 ELSE 0)

\* len() was asked of a list of two elements in three slots
C23_Witness ==
    /\ last.op = "len" /\ last.size = 2
    /\ Len(contents) = 3

\* C24: the free chain from next_free visits exactly the Free slots, each
\* once, and ends in None; it holds no Occupied slot and has length
\* Len(contents) - count.
C24_FreeChainIntegrity ==
    /\ Range(free_chain(self)) = FreeSlots(self)
    /\ IsInjective(free_chain(self))
    /\ \A k \in DOMAIN free_chain(self) : IsFree(contents, free_chain(self)[k])
    /\ Len(free_chain(self)) = Len(contents) - count

\* a removal has just left two Free slots chained
C24_Witness ==
    /\ last.op \in {"remove", "pop_front"} /\ last.res # None
    /\ Len(free_chain(self)) = 2
    /\ count = 1

\* the slot the removal in flight has freed
Freed == IF last.op = "remove" THEN Arg.index ELSE Unwrap(before.head)

\* C25: an insertion made while the free chain is non-empty occupies the slot
\* at the head of the free chain and sets next_free to that slot's stored link
\* (the chain loses its first slot); a removal makes the freed slot the head
\* of the free chain with its link set to the former head (the chain gains it
\* in front).  The chain is thus a stack: the slot freed last is reused first.
C25_LifoSlotReuse ==
    /\ (DidInsert /\ before.next_free # None) =>
         LET i == Unwrap(before.next_free) IN
         /\ IsFree(before.contents, i)
         /\ OccupiedSlots(self) = OccupiedSlots(before) \cup {i}
         /\ next_free = Slot(before.contents, i).next_free
         /\ free_chain(self) = Tail(free_chain(before))
    /\ DidRemove =>
         /\ next_free = Some(Freed)
         /\ Slot(contents, Freed) = Free(before.next_free)
         /\ free_chain(self) = <<Freed>> \o free_chain(before)

\* an insertion reused the slot freed last, with another Free slot below it in
\* the chain
C25_Witness ==
    /\ DidInsert
    /\ Len(free_chain(before)) = 2
    /\ IsOccupied(contents, free_chain(before)[1])
    /\ free_chain(before)[1] > free_chain(before)[2]

\* C26: the length of the slot vector never decreases; it grows by exactly one
\* when an insertion finds the free chain empty, and is unchanged by an
\* insertion that reuses a Free slot, by every removal and by every read.
C26_CapacityMonotonic ==
    last.op # "idle" =>
      /\ Len(contents) >= Len(before.contents)
      /\ Len(contents) = Len(before.contents)
                         + (IF DidInsert /\ before.next_free = None THEN 1 ELSE 0)

\* an insertion grew the vector to three slots after removals had been made
C26_Witness ==
    /\ DidInsert
    /\ before.next_free = None
    /\ Len(contents) = 3
    /\ generation > 0

\* C27: the generation counter starts at 0, goes up by exactly one with every
\* successful remove or pop_front and is left alone by every other call
\* (insertions, reads, calls that fail on an invalid handle); it never
\* decreases and equals the number of successful removals so far.
C27_GenerationClock ==
    /\ generation = Cardinality(removed)
    /\ last.op # "idle" =>
         /\ generation >= before.generation
         /\ generation = before.generation + (IF DidRemove THEN 1 ELSE 0)

\* the second successful removal, made by pop_front
C27_Witness ==
    /\ last.op = "pop_front" /\ last.res # None
    /\ generation = 2

\* C28 (as claimed): every insertion writes the current generation counter
\* into the slot it occupies and returns a handle with exactly that position
\* and generation; the generation stored in a slot does not change while the
\* slot stays Occupied.
C28_StampAtInsertion ==
    /\ DidInsert =>
         /\ Slot(contents, NewSlot).generation = before.generation
         /\ last.index = Some(Index(NewSlot, before.generation))
    /\ last.op # "idle" =>
         \A i \in OccupiedSlots(before) \cap OccupiedSlots(self) :
           Slot(contents, i).generation = Slot(before.contents, i).generation

\* C29 (as claimed): for every valid handle h not of the tail,
\* prev_index(next_index(h)) = h, and for every valid handle h not of the
\* head, next_index(prev_index(h)) = h, position and generation alike.
C29_NeighbourRoundTrip ==
    \A h \in Handles :
      IsValid(self, h) =>
        /\ tail # Some(h.index) =>
             /\ next_index(self, h).res # None
             /\ prev_index(self, Unwrap(next_index(self, h).res)) = Ret(self, Some(h))
        /\ head # Some(h.index) =>
             /\ prev_index(self, h).res # None
             /\ next_index(self, Unwrap(prev_index(self, h).res)) = Ret(self, Some(h))

\* C30: remove, next_index, prev_index, insert_before and insert_after given a
\* handle that is out of range, of a Free slot, or of another generation
\* return None and do not abort.
C30_NoFaultOnInvalidHandle ==
    /\ \A h \in Handles :
         ~IsValid(self, h) =>
           /\ ~remove(self, h).panic /\ remove(self, h).res = None
           /\ ~next_index(self, h).panic /\ next_index(self, h).res = None
           /\ ~prev_index(self, h).panic /\ prev_index(self, h).res = None
           /\ \A v \in Values :
                /\ ~insert_before(self, h, v).panic /\ insert_before(self, h, v).res = None
                /\ ~insert_after(self, h, v).panic /\ insert_after(self, h, v).res = None
    /\ (last.op \in {"remove", "next_index", "prev_index", "insert_before", "insert_after"}
        /\ ~IsValid(before, Arg)) =>
         (~fault /\ last.res = None /\ last.index = None)

\* next_index was given the handle of a slot that is Free
C30_Witness ==
    /\ last.op = "next_index"
    /\ IsFree(before.contents, Arg.index)
    /\ ~fault

\* the operations that hold a "Corrupted list" abort
CorruptionOps ==
    {"push_back", "push_front", "pop_front", "insert_before", "insert_after",
     "remove", "index_of", "iter", "iter_mut", "iter_own"}

\* C31: no sequence of public calls reaches a "Corrupted list" abort in
\* push_back, push_front, pop_front, insert_before, insert_after, remove,
\* index_of, iter, iter_mut or iter_own: the head of the free chain is always
\* a Free slot, and head, tail and every prev/next link address an Occupied
\* slot.
C31_NoCorruptionAbort ==
    /\ next_free # None => IsFree(contents, Unwrap(next_free))
    /\ head # None => IsOccupied(contents, Unwrap(head))
    /\ tail # None => IsOccupied(contents, Unwrap(tail))
    /\ \A i \in OccupiedSlots(self) :
         /\ Slot(contents, i).next # None => IsOccupied(contents, Unwrap(Slot(contents, i).next))
         /\ Slot(contents, i).prev # None => IsOccupied(contents, Unwrap(Slot(contents, i).prev))
    /\ last.op \in CorruptionOps => ~fault

\* index_of walked a list of three, after removals, without finding the value
C31_Witness ==
    /\ last.op = "index_of" /\ last.index = None
    /\ before.count = 3
    /\ generation > 0
    /\ ~fault

\* C32: a successful insert_before or insert_after changes, besides the slot
\* it occupies, only the anchor's link on the insertion side and the former
\* neighbour's link toward the anchor (and head or tail when the anchor was
\* the boundary); every other slot, the item and generation of the anchor and
\* the neighbour, and the generation counter are unchanged.
C32_InsertionFrame ==
    (last.op \in {"insert_before", "insert_after"} /\ IsValid(before, Arg)) =>
      LET isBefore == last.op = "insert_before"
          a == Arg.index
          oa == Slot(before.contents, a)
          na == Slot(contents, a)
          side == IF isBefore THEN oa.prev ELSE oa.next
      IN  /\ generation = before.generation
          /\ na.tag = "Occupied" /\ na.item = oa.item /\ na.generation = oa.generation
          /\ IF isBefore THEN na.next = oa.next /\ na.prev = Some(NewSlot)
                         ELSE na.prev = oa.prev /\ na.next = Some(NewSlot)
          /\ side # None =>
               LET ob == Slot(before.contents, Unwrap(side))
                   nb == Slot(contents, Unwrap(side))
               IN  /\ nb.tag = "Occupied" /\ nb.item = ob.item
                   /\ nb.generation = ob.generation
                   /\ IF isBefore THEN nb.prev = ob.prev /\ nb.next = Some(NewSlot)
                                  ELSE nb.next = ob.next /\ nb.prev = Some(NewSlot)
          /\ \A i \in 0 .. (Len(before.contents) - 1) :
               i \notin ({a, NewSlot} \cup side) =>
                 Slot(contents, i) = Slot(before.contents, i)
          /\ head = IF isBefore /\ before.head = Some(a) THEN Some(NewSlot) ELSE before.head
          /\ tail = IF ~isBefore /\ before.tail = Some(a) THEN Some(NewSlot) ELSE before.tail

\* an insertion next to an anchor of another generation than the counter's,
\* with an element in the list that is neither the anchor nor its neighbour
C32_Witness ==
    /\ last.op \in {"insert_before", "insert_after"} /\ IsValid(before, Arg)
    /\ Arg.generation < before.generation
    /\ \E i \in OccupiedSlots(before) :
         /\ i # Arg.index
         /\ Some(i) # (IF last.op = "insert_before"
                       THEN Slot(before.contents, Arg.index).prev
                       ELSE Slot(before.contents, Arg.index).next)

\* C33: a successful removal changes only the removed slot (to Free), the next
\* link of its predecessor, the prev link of its successor, head and tail
\* when it was at a boundary, next_free, count and the generation counter; the
\* item and generation of every surviving slot, its other links, and every
\* slot that was Free are unchanged.
C33_RemovalFrame ==
    DidRemove =>
      LET of == Slot(before.contents, Freed) IN
      /\ IsFree(contents, Freed)
      /\ Len(contents) = Len(before.contents)
      /\ \A i \in OccupiedSlots(before) \ {Freed} :
           LET o == Slot(before.contents, i)
               n == Slot(contents, i)
           IN  /\ n.tag = "Occupied" /\ n.item = o.item /\ n.generation = o.generation
               /\ n.next = IF of.prev = Some(i) THEN of.next ELSE o.next
               /\ n.prev = IF of.next = Some(i) THEN of.prev ELSE o.prev
      /\ \A i \in FreeSlots(before) : Slot(contents, i) = Slot(before.contents, i)
      /\ head = IF before.head = Some(Freed) THEN of.next ELSE before.head
      /\ tail = IF before.tail = Some(Freed) THEN of.prev ELSE before.tail

\* the tail of a list of two was removed while another slot was Free
C33_Witness ==
    /\ last.op = "remove" /\ IsValid(before, Arg)
    /\ before.count = 2
    /\ before.tail = Some(Arg.index)
    /\ FreeSlots(before) # {}

\* the three kinds of iterator
IterKinds == {"iter", "iter_mut", "iter_own"}

\* C34: a pass of iter(), iter_mut() or iter_own() started in any reachable
\* state ends: next() returns None after at most count elements, and from
\* then on every further next() returns None.
C34_IterationTerminates ==
    /\ last.op \in IterKinds => (~fault /\ Len(last.items) <= before.count)
    /\ ~iter(self).panic
    /\ \A kind \in IterKinds :
         LET d == drain(kind, self, iter(self).res, None, 0, Len(contents) + 1)
             again == drain(kind, d.list, d.index, None, 0, 1)
         IN  /\ ~d.panic
             /\ d.yielded <= count
             /\ d.index = None
             /\ ~again.panic /\ again.yielded = 0
             /\ again.index = None /\ again.list = d.list

\* a pass over three elements ended before it had yielded them all
C34_Witness ==
    /\ last.op \in IterKinds
    /\ before.count = 3
    /\ Len(last.items) < 3
    /\ ~fault

\* C35: no two insertion calls ever return equal handles.  Every handle
\* returned earlier is either still valid or among the removed ones (it stays
\* valid until its removal, C17), so it is enough that the handle an insertion
\* returns was not valid before the call and is not a removed one; a removed
\* handle of the same slot has a smaller generation.
C35_MintedHandlesDistinct ==
    (last.op \in InsertOps /\ last.index # None) =>
      LET h == Unwrap(last.index) IN
      /\ ~IsValid(before, h)
      /\ h \notin removed
      /\ \A g \in removed : g.index = h.index => g.generation < h.generation

\* an insertion returned the third handle minted for one slot
C35_Witness ==
    /\ last.op \in InsertOps /\ last.index # None
    /\ Cardinality({g \in removed : g.index = Unwrap(last.index).index}) = 2

\* C36: the generation stored in an Occupied slot is at most the list's
\* generation counter, and a slot occupied after the k-th successful removal
\* has a generation of at least k.
C36_GenerationsBoundedByClock ==
    /\ \A i \in OccupiedSlots(self) : Slot(contents, i).generation <= generation
    /\ DidInsert => Slot(contents, NewSlot).generation >= Cardinality(removed)

\* a slot was occupied after the second removal, next to one of generation 0
C36_Witness ==
    /\ DidInsert
    /\ Cardinality(removed) = 2
    /\ \E i \in OccupiedSlots(self) : Slot(contents, i).generation = 0

\* C37: for every Occupied slot s, if s.next = n then slot n is Occupied and
\* n.prev = s, and if s.prev = p then slot p is Occupied and p.next = s; no
\* link addresses a Free slot or a position outside the vector.
C37_LinksConsistent ==
    \A s \in OccupiedSlots(self) :
      LET e == Slot(contents, s) IN
      /\ e.next # None =>
           /\ InRange(contents, Unwrap(e.next))
           /\ IsOccupied(contents, Unwrap(e.next))
           /\ Slot(contents, Unwrap(e.next)).prev = Some(s)
      /\ e.prev # None =>
           /\ InRange(contents, Unwrap(e.prev))
           /\ IsOccupied(contents, Unwrap(e.prev))
           /\ Slot(contents, Unwrap(e.prev)).next = Some(s)

\* insert_after has just put an element between two others
C37_Witness ==
    /\ last.op = "insert_after" /\ last.index # None
    /\ count = 3

\* the operations that only read
ReadOps ==
    {"len", "head", "head_index", "tail_index", "get", "next_index", "prev_index",
     "index_of", "contains", "iter"}

\* C38: len, head, head_index, tail_index, get, next_index, prev_index,
\* index_of, contains and a whole pass of iter() leave the list (slots, head,
\* tail, next_free, generation counter, count) as it was, whether they return
\* a value or None.
C38_ReadsHaveNoEffect ==
    /\ last.op \in ReadOps => self = before
    /\ len(self).list = self /\ head_of(self).list = self
    /\ head_index(self).list = self /\ tail_index(self).list = self
    /\ iter_pass(self).list = self
    /\ \A h \in Handles :
         /\ get(self, h).list = self
         /\ next_index(self, h).list = self
         /\ prev_index(self, h).list = self
    /\ \A v \in Values :
         /\ index_of(self, v).list = self
         /\ contains(self, v).list = self

\* a pass of iter() over two elements, after removals
C38_Witness ==
    /\ last.op = "iter"
    /\ Len(last.items) = 2
    /\ generation > 0

====
